---- MODULE Spec2Model ----
(***************************************************************************)
(* Model of fix-broken-urls.py: the catalog URL fixer.                     *)
(*                                                                         *)
(* A URL string is abstracted by the features the code inspects:           *)
(*   host : the host-and-prefix part (decides the substring tests          *)
(*          'github.com' in url, 'sourceforge.net' in url, ...),           *)
(*   vers : the result of re.findall(r'(\d+)\.(\d+)', url), in order,      *)
(*   file : what remains (distinguishes otherwise equal URLs),             *)
(*   build: the build number of a constructed Pop!_OS URL (0 otherwise).   *)
(* The network is the variable web: the answer each URL gives to one HEAD  *)
(* request (200, 404, or a redirect).  It can change between two network   *)
(* calls of the program (WebChange).                                       *)
(***************************************************************************)
EXTENDS Integers, Sequences, FiniteSets, TLC

\* ---------------------------------------------------------------- bounds
MaxEntries == 2     \* longest catalog drawn in Init
MaxChanges == 1     \* how often the network changes during a behaviour
MaxRuns == 2        \* how often main() is run on the same directory

\* ------------------------------------------------------------------ URLs
Url(h, v, f) == [host |-> h, vers |-> v, file |-> f, build |-> 0]

EmptyUrl == Url("", <<>>, "")               \* "download_url": ""
MissingUrl == Url("", <<>>, "<missing>")    \* no "download_url" key
None == Url("", <<>>, "<None>")             \* Python None

NoName == "<missing>"                       \* no "name" key

\* url substring tests of main(), by host
GithubHosts == {"github.com/o/r", "github.com"}
GithubRepoHosts == {"github.com/o/r"}
SourceforgeHosts == {"sourceforge.net/projects/p", "downloads.sourceforge.net"}
SourceforgeProjectHosts == {"sourceforge.net/projects/p"}
MirrorHosts == {"download.fedoraproject.org", "cdimage.debian.org"}

\* name.lower() substring tests of main(): the keywords each name contains
Keywords(name) ==
    CASE name = "Kubuntu" -> {"kubuntu"}
      [] name = "Pop!_OS" -> {"pop", "os"}
      [] name = "Zorin OS" -> {"zorin", "os"}
      [] name = "Nobara" -> {"nobara"}
      [] name = "Bazzite GNOME" -> {"bazzite", "gnome"}
      [] name = "Bazzite" -> {"bazzite"}
      [] name = "ChimeraOS" -> {"chimera", "os"}
      [] OTHER -> {}

\* ------------------------------------------------------------ the network
Ok == [code |-> 200, to |-> None]
Gone == [code |-> 404, to |-> None]
Moved(u) == [code |-> 301, to |-> u]

\* requests.head(url, allow_redirects=True): follow redirects; a redirect
\* loop raises (TooManyRedirects) and the bare except returns (False, None).
RECURSIVE head(_, _, _)
head(w, url, seen) ==
    IF url \notin DOMAIN w THEN [valid |-> FALSE, final |-> None]
    ELSE IF w[url].code = 200 THEN [valid |-> TRUE, final |-> url]
    ELSE IF w[url].code = 301 /\ w[url].to \notin seen
         THEN head(w, w[url].to, seen \cup {url})
    ELSE [valid |-> FALSE, final |-> None]

test_url(w, url) == head(w, url, {url})

\* the URLs on which test_url sends a request that is answered 200
\* ("for link in candidates: test_url(link); if is_valid: return final"):
\* the first candidate that validates wins.
RECURSIVE first_valid(_, _)
first_valid(w, cands) ==
    IF cands = <<>> THEN None
    ELSE IF test_url(w, Head(cands)).valid THEN test_url(w, Head(cands)).final
    ELSE first_valid(w, Tail(cands))

\* the candidates such a scan hands to test_url
RECURSIVE scanned(_, _)
scanned(w, cands) ==
    IF cands = <<>> THEN {}
    ELSE IF test_url(w, Head(cands)).valid THEN {Head(cands)}
    ELSE {Head(cands)} \cup scanned(w, Tail(cands))


\* ------------------------------------------ what the network holds (Init)
A == Url("example.org", <<>>, "a.iso")
R == Url("example.org", <<>>, "old.iso")
D == Url("example.org", <<>>, "dead.iso")
App(v1, v2) == Url("example.org", <<v1, v2>>, "app.iso")
Pkg(v1, v2) == Url("example.org", <<v1, v2>>, "pkg.iso")
G(v) == Url("github.com/o/r", <<v>>, "rel.iso")
GA == Url("github.com/o/r", <<<<3, 0>>>>, "asset.iso")
S(v) == Url("sourceforge.net/projects/p", <<v>>, "sf.iso")
SA == Url("sourceforge.net/projects/p", <<>>, "files/latest.iso/download")
F(v) == Url("download.fedoraproject.org", <<v>>, "fedora.iso")
M == Url("cdimage.debian.org", <<>>, "current.iso")
K0 == Url("cdimage.ubuntu.com", <<<<25, 4>>>>, "kubuntu-beta-desktop-amd64.iso")
K1 == Url("cdimage.ubuntu.com", <<<<25, 4>>>>, "kubuntu-desktop-amd64.iso")

\* the answers at the start: every URL not listed answers 404
Web0 ==
    (A :> Ok) @@ (R :> Moved(A)) @@
    (App(<<2, 4>>, <<2, 4>>) :> Ok) @@
    (Pkg(<<2, 4>>, <<2, 4>>) :> Ok) @@ (Pkg(<<2, 4>>, <<2, 3>>) :> Ok) @@
    (Pkg(<<2, 5>>, <<2, 3>>) :> Ok) @@
    (G(<<2, 4>>) :> Ok) @@ (GA :> Gone) @@
    (S(<<1, 3>>) :> Ok) @@ (SA :> Ok) @@
    (F(<<40, 2>>) :> Ok) @@
    (K0 :> Gone) @@ (K1 :> Ok)

\* the URLs whose answer changes between 200 and 404 while the tool runs
Volatile == {K1, GA}

\* the links a fetched page, API answer or feed lists, already filtered by the
\* resolver's pattern, in document order; <<>> also stands for a failed fetch
Page(site) ==
    CASE site = "kubuntu" -> <<K0, K1>>
      [] site = "github:o/r" -> <<GA>>
      [] site = "sourceforge:p" -> <<SA>>
      [] OTHER -> <<>>

\* ------------------------------------------------- site-specific resolvers
scrape_download_page(w, site) == first_valid(w, Page(site))

fix_kubuntu(w) == scrape_download_page(w, "kubuntu")

PopVersions == <<<<24, 4>>, <<22, 4>>>>
PopTypes == <<"intel", "nvidia">>
\* for version / for build_type / for build in range(60, 40, -1)
PopCandidates ==
    [k \in 1..80 |->
        [host |-> "iso.pop-os.org",
         vers |-> <<PopVersions[((k - 1) \div 40) + 1],
                    PopVersions[((k - 1) \div 40) + 1]>>,
         file |-> PopTypes[(((k - 1) \div 20) % 2) + 1],
         build |-> 60 - ((k - 1) % 20)]]

fix_popos(w) == first_valid(w, PopCandidates)

fix_zorin(w) == scrape_download_page(w, "zorin")

\* for version in [40, 41] / for month in [...]
NobaraCandidates ==
    <<Url("nobaraproject.org", <<>>, "Nobara-40-Official-2024-11.iso"),
      Url("nobaraproject.org", <<>>, "Nobara-40-Official-2024-12.iso"),
      Url("nobaraproject.org", <<>>, "Nobara-40-Official-2025-01.iso"),
      Url("nobaraproject.org", <<>>, "Nobara-41-Official-2024-11.iso"),
      Url("nobaraproject.org", <<>>, "Nobara-41-Official-2024-12.iso"),
      Url("nobaraproject.org", <<>>, "Nobara-41-Official-2025-01.iso")>>

fix_nobara(w) == first_valid(w, NobaraCandidates)

fix_bazzite(w, name) ==
    LET variant == IF "gnome" \in Keywords(name) THEN "gnome" ELSE "deck"
    IN first_valid(w, Page("bazzite-" \o variant))

fix_chimeraos(w) == first_valid(w, Page("chimeraos"))

\* which resolver main() dispatches to: the if/elif chain on name.lower()
Dispatch(name) ==
    LET kw == Keywords(name) IN
    IF "kubuntu" \in kw THEN "kubuntu"
    ELSE IF "pop" \in kw /\ "os" \in kw THEN "popos"
    ELSE IF "zorin" \in kw THEN "zorin"
    ELSE IF "nobara" \in kw THEN "nobara"
    ELSE IF "bazzite" \in kw THEN "bazzite"
    ELSE IF "chimera" \in kw THEN "chimera"
    ELSE "none"

site_specific(w, name) ==
    CASE Dispatch(name) = "kubuntu" -> fix_kubuntu(w)
      [] Dispatch(name) = "popos" -> fix_popos(w)
      [] Dispatch(name) = "zorin" -> fix_zorin(w)
      [] Dispatch(name) = "nobara" -> fix_nobara(w)
      [] Dispatch(name) = "bazzite" -> fix_bazzite(w, name)
      [] Dispatch(name) = "chimera" -> fix_chimeraos(w)
      [] OTHER -> None

\* ------------------------------------------------------- generic resolvers
\* re.search(r'github\.com/([^/]+/[^/]+)', repo_url) must match
GithubAssets(url) ==
    IF url.host \in GithubRepoHosts THEN Page("github:o/r") ELSE <<>>

find_github_release_url(w, url) == first_valid(w, GithubAssets(url))

\* re.search(r'sourceforge\.net/projects/([^/]+)', url) must match
SourceforgeLinks(url) ==
    IF url.host \in SourceforgeProjectHosts THEN Page("sourceforge:p") ELSE <<>>

find_sourceforge_url(w, url) == first_valid(w, SourceforgeLinks(url))

\* re.search(r'\d+\.\d+', url)
HasVersion(url) == url.vers # <<>>

\* faulty variant: count=1 left out, every occurrence is substituted
re_sub_all(u, m, n) == [u EXCEPT !.vers = [k \in DOMAIN u.vers |-> <<m, n>>]]

\* re.sub(r'\d+\.\d+', f'{m}.{n}', url, count=1)
re_sub_first(url, m, n) == [url EXCEPT !.vers[1] = <<m, n>>]

Min(a, b) == IF a < b THEN a ELSE b

\* for m in range(major, major + 2): for n in range(minor, min(minor + 5, 50))
VersionCandidates(url) ==
    LET major == url.vers[1][1]
        minor == url.vers[1][2]
        hi == Min(minor + 5, 50)
        cnt == IF hi > minor THEN hi - minor ELSE 0
    IN [k \in 1..(2 * cnt) |->
            re_sub_first(url, major + ((k - 1) \div cnt), minor + ((k - 1) % cnt))]

version_bump(w, url) == first_valid(w, VersionCandidates(url))


\* ---------------------------------------------------------------- catalog
Distro(n, u, v) == [name |-> n, download_url |-> u, verified |-> v]

\* the entries catalog.json is drawn from; verified is "true", "false" or
\* "absent" (no such key)
EntryPool ==
    { Distro(NoName, MissingUrl, "absent"),
      Distro("Arch", EmptyUrl, "true"),
      Distro("Arch", A, "true"),
      Distro("Arch", R, "true"),
      Distro("Zorin OS", D, "absent"),
      Distro("Arch", App(<<2, 3>>, <<2, 3>>), "true"),
      Distro("Arch", Pkg(<<2, 3>>, <<2, 3>>), "true"),
      Distro("Bazzite GNOME", G(<<2, 3>>), "true"),
      Distro("ChimeraOS", S(<<1, 2>>), "absent"),
      Distro("Nobara", F(<<40, 1>>), "true"),
      Distro("Pop!_OS", M, "true"),
      Distro("Kubuntu", D, "true") }

RECURSIVE SeqsUpTo(_, _)
SeqsUpTo(S0, n) ==
    IF n = 0 THEN {<<>>}
    ELSE LET shorter == SeqsUpTo(S0, n - 1)
         IN shorter \cup {Append(q, e) : q \in shorter, e \in S0}

Missing == <<>>     \* a file that does not exist
File(c) == <<c>>    \* a file holding c

VARIABLES
    catalog_json,       \* catalog.json: [wrapped, distros]
    backup_file,        \* catalog.json.backup
    new_file,           \* catalog.json.new
    web,                \* the network: URL -> answer
    changes,            \* how often the network has changed
    run,                \* which run of main() this is
    pc,                 \* where main() stands
    catalog, has_wrapper, idx, new_url,
    fixed_count, redirect_count, skipped_working, failed_distros,
    ret,                \* <<>> until main() returns, then <<status>>
    log,                \* per entry of this run: outcome, strategies, probes
    written             \* the files this run has written, in order

vars == <<catalog_json, backup_file, new_file, web, changes, run, pc,
          catalog, has_wrapper, idx, new_url,
          fixed_count, redirect_count, skipped_working, failed_distros,
          ret, log, written>>

files == <<catalog_json, backup_file, new_file>>
counters == <<fixed_count, redirect_count, skipped_working, failed_distros>>
env == <<web, changes, run>>

NoLog == [outcome |-> "Unchecked", tried |-> {}, probed |-> {},
          generic_probed |-> {}, candidate |-> None]

Init ==
    /\ catalog_json \in [wrapped : BOOLEAN, distros : SeqsUpTo(EntryPool, MaxEntries)]
    /\ backup_file = Missing
    /\ new_file = Missing
    /\ web = Web0
    /\ changes = 0
    /\ run = 1
    /\ pc = "start"
    /\ catalog = <<>>
    /\ has_wrapper = FALSE
    /\ idx = 1
    /\ new_url = None
    /\ fixed_count = 0
    /\ redirect_count = 0
    /\ skipped_working = 0
    /\ failed_distros = <<>>
    /\ ret = <<>>
    /\ log = <<>>
    /\ written = <<>>

\* ------------------------------------------------------------------ main
\* lines 239-259: load catalog.json, detect the wrapper, zero the counters
Load ==
    /\ pc = "start"
    /\ catalog' = catalog_json.distros
    /\ has_wrapper' = catalog_json.wrapped
    /\ fixed_count' = 0
    /\ redirect_count' = 0
    /\ failed_distros' = <<>>
    /\ skipped_working' = 0
    /\ idx' = 1
    /\ new_url' = None
    /\ ret' = <<>>
    /\ log' = [i \in 1..Len(catalog_json.distros) |-> NoLog]
    /\ written' = <<>>
    /\ pc' = "loop"
    /\ UNCHANGED <<files, env>>

InLoop == pc = "loop" /\ idx <= Len(catalog)
distro == catalog[idx]
\* distro.get('name', 'Unknown')
name == IF distro.name = NoName THEN "Unknown" ELSE distro.name
\* distro.get('download_url', '')
url == IF distro.download_url = MissingUrl THEN EmptyUrl ELSE distro.download_url

Note(field, value) == [log EXCEPT ![idx][field] = value]
Outcome(o) == [log EXCEPT ![idx].outcome = o]

\* faulty variant: an empty URL is counted as working
SkipEmpty_Counted ==
    /\ InLoop
    /\ url = EmptyUrl
    /\ idx' = idx + 1
    /\ skipped_working' = skipped_working + 1
    /\ log' = Outcome("Skipped")
    /\ UNCHANGED <<files, env, pc, catalog, has_wrapper, new_url, fixed_count,
                   redirect_count, failed_distros, ret, written>>

\* lines 265-266: if not url: continue
SkipEmpty ==
    /\ InLoop
    /\ url = EmptyUrl
    /\ idx' = idx + 1
    /\ log' = Outcome("Skipped")
    /\ UNCHANGED <<files, env, pc, catalog, has_wrapper, new_url, counters, ret, written>>

\* lines 271-281, valid and final_url == url
ProbeWorking ==
    /\ InLoop
    /\ url # EmptyUrl
    /\ test_url(web, url).valid
    /\ test_url(web, url).final = url
    /\ skipped_working' = skipped_working + 1
    /\ idx' = idx + 1
    /\ log' = [log EXCEPT ![idx].outcome = "Working", ![idx].probed = {url}]
    /\ UNCHANGED <<files, env, pc, catalog, has_wrapper, new_url,
                   fixed_count, redirect_count, failed_distros, ret, written>>

\* faulty variant: the redirect branch also resets verified
ProbeRedirect_Unverifies ==
    /\ InLoop
    /\ url # EmptyUrl
    /\ test_url(web, url).valid
    /\ test_url(web, url).final # url
    /\ catalog' = [catalog EXCEPT ![idx].download_url = test_url(web, url).final,
                                  ![idx].verified = "false"]
    /\ redirect_count' = redirect_count + 1
    /\ idx' = idx + 1
    /\ log' = [log EXCEPT ![idx].outcome = "Redirected", ![idx].probed = {url}]
    /\ UNCHANGED <<files, env, pc, has_wrapper, new_url,
                   fixed_count, skipped_working, failed_distros, ret, written>>

\* faulty variant: the redirect is counted but the resolved URL is not stored
ProbeRedirect_KeepsUrl ==
    /\ InLoop
    /\ url # EmptyUrl
    /\ test_url(web, url).valid
    /\ test_url(web, url).final # url
    /\ redirect_count' = redirect_count + 1
    /\ idx' = idx + 1
    /\ log' = [log EXCEPT ![idx].outcome = "Redirected", ![idx].probed = {url}]
    /\ UNCHANGED <<files, env, pc, catalog, has_wrapper, new_url,
                   fixed_count, skipped_working, failed_distros, ret, written>>

\* lines 271-278, valid and final_url != url
ProbeRedirect ==
    /\ InLoop
    /\ url # EmptyUrl
    /\ test_url(web, url).valid
    /\ test_url(web, url).final # url
    /\ catalog' = [catalog EXCEPT ![idx].download_url = test_url(web, url).final]
    /\ redirect_count' = redirect_count + 1
    /\ idx' = idx + 1
    /\ log' = [log EXCEPT ![idx].outcome = "Redirected", ![idx].probed = {url}]
    /\ UNCHANGED <<files, env, pc, has_wrapper, new_url,
                   fixed_count, skipped_working, failed_distros, ret, written>>

\* lines 271, 282-285: broken, new_url = None
ProbeBroken ==
    /\ InLoop
    /\ url # EmptyUrl
    /\ ~test_url(web, url).valid
    /\ new_url' = None
    /\ pc' = "specific"
    /\ log' = Note("probed", {url})
    /\ UNCHANGED <<files, env, catalog, has_wrapper, idx, counters, ret, written>>

\* lines 287-299: the resolver the name selects, if any
SiteSpecific ==
    /\ pc = "specific"
    /\ new_url' = site_specific(web, name)
    /\ pc' = "generic"
    /\ log' = [log EXCEPT ![idx].tried =
                   IF Dispatch(name) = "none" THEN {} ELSE {Dispatch(name)}]
    /\ UNCHANGED <<files, env, catalog, has_wrapper, idx, counters, ret, written>>


\* lines 302-336: the if/elif chain that selects the one generic strategy
Strategy(u) ==
    IF u.host \in GithubHosts THEN "github"
    ELSE IF u.host \in SourceforgeHosts THEN "sourceforge"
    ELSE IF HasVersion(u) THEN "version"
    ELSE IF u.host \in MirrorHosts THEN "mirror"
    ELSE "none"

\* line 302: if not new_url is false, the site-specific candidate stands
GenericSkip ==
    /\ pc = "generic"
    /\ new_url # None
    /\ pc' = "validate"
    /\ UNCHANGED <<files, env, catalog, has_wrapper, idx, new_url, counters,
                   ret, log, written>>

Attempt(strategy, probedUrls) ==
    [log EXCEPT ![idx].tried = @ \cup {strategy},
                ![idx].generic_probed = probedUrls]

\* lines 304-307
GenericGithub ==
    /\ pc = "generic"
    /\ new_url = None
    /\ Strategy(url) = "github"
    /\ new_url' = find_github_release_url(web, url)
    /\ log' = Attempt("github", scanned(web, GithubAssets(url)))
    /\ pc' = "validate"
    /\ UNCHANGED <<files, env, catalog, has_wrapper, idx, counters, ret, written>>

\* lines 310-315
GenericSourceforge ==
    /\ pc = "generic"
    /\ new_url = None
    /\ Strategy(url) = "sourceforge"
    /\ new_url' = find_sourceforge_url(web, url)
    /\ log' = Attempt("sourceforge", scanned(web, SourceforgeLinks(url)))
    /\ pc' = "validate"
    /\ UNCHANGED <<files, env, catalog, has_wrapper, idx, counters, ret, written>>

\* lines 318-332
GenericVersion ==
    /\ pc = "generic"
    /\ new_url = None
    /\ Strategy(url) = "version"
    /\ new_url' = version_bump(web, url)
    /\ log' = Attempt("version", scanned(web, VersionCandidates(url)))
    /\ pc' = "validate"
    /\ UNCHANGED <<files, env, catalog, has_wrapper, idx, counters, ret, written>>

\* lines 335-336: print "Mirrors may work - skipping for now"
GenericMirror ==
    /\ pc = "generic"
    /\ new_url = None
    /\ Strategy(url) = "mirror"
    /\ log' = Attempt("mirror", {})
    /\ pc' = "validate"
    /\ UNCHANGED <<files, env, catalog, has_wrapper, idx, new_url, counters, ret,
                   written>>

\* no branch of the chain applies
GenericNone ==
    /\ pc = "generic"
    /\ new_url = None
    /\ Strategy(url) = "none"
    /\ pc' = "validate"
    /\ UNCHANGED <<files, env, catalog, has_wrapper, idx, new_url, counters, ret,
                   log, written>>

NextEntry ==
    /\ idx' = idx + 1
    /\ pc' = "loop"

\* faulty variant: the candidate is stored without the second probe
ValidateFixed_Unchecked ==
    /\ pc = "validate"
    /\ new_url # None
    /\ catalog' = [catalog EXCEPT ![idx].download_url = new_url,
                                  ![idx].verified = "false"]
    /\ fixed_count' = fixed_count + 1
    /\ log' = [log EXCEPT ![idx].outcome = "Fixed", ![idx].candidate = new_url]
    /\ NextEntry
    /\ UNCHANGED <<files, env, has_wrapper, new_url, redirect_count,
                   skipped_working, failed_distros, ret, written>>

\* lines 338-348
ValidateFixed ==
    /\ pc = "validate"
    /\ new_url # None
    /\ test_url(web, new_url).valid
    /\ catalog' = [catalog EXCEPT ![idx].download_url = test_url(web, new_url).final,
                                  ![idx].verified = "false"]
    /\ fixed_count' = fixed_count + 1
    /\ log' = [log EXCEPT ![idx].outcome = "Fixed", ![idx].candidate = new_url,
                          ![idx].probed = @ \cup {new_url}]
    /\ NextEntry
    /\ UNCHANGED <<files, env, has_wrapper, new_url, redirect_count,
                   skipped_working, failed_distros, ret, written>>

\* faulty variant: the candidate is stored although the second probe failed
ValidateFailed_Overwrites ==
    /\ pc = "validate"
    /\ new_url # None
    /\ ~test_url(web, new_url).valid
    /\ catalog' = [catalog EXCEPT ![idx].download_url = new_url]
    /\ failed_distros' =
           Append(failed_distros, <<name, url, "Found replacement but validation failed">>)
    /\ log' = [log EXCEPT ![idx].outcome = "StillBroken", ![idx].candidate = new_url,
                          ![idx].probed = @ \cup {new_url}]
    /\ NextEntry
    /\ UNCHANGED <<files, env, has_wrapper, new_url, fixed_count,
                   redirect_count, skipped_working, ret, written>>

\* lines 338-341, 349-351
ValidateFailed ==
    /\ pc = "validate"
    /\ new_url # None
    /\ ~test_url(web, new_url).valid
    /\ failed_distros' =
           Append(failed_distros, <<name, url, "Found replacement but validation failed">>)
    /\ log' = [log EXCEPT ![idx].outcome = "StillBroken", ![idx].candidate = new_url,
                          ![idx].probed = @ \cup {new_url}]
    /\ NextEntry
    /\ UNCHANGED <<files, env, catalog, has_wrapper, new_url, fixed_count,
                   redirect_count, skipped_working, ret, written>>

\* lines 352-354
NoReplacement ==
    /\ pc = "validate"
    /\ new_url = None
    /\ failed_distros' = Append(failed_distros, <<name, url, "No replacement found">>)
    /\ log' = Outcome("StillBroken")
    /\ NextEntry
    /\ UNCHANGED <<files, env, catalog, has_wrapper, new_url, fixed_count,
                   redirect_count, skipped_working, ret, written>>

LoopDone == pc = "loop" /\ idx > Len(catalog)

\* faulty variant: only fixed entries trigger the save
AnyChange_FixedOnly == fixed_count > 0

\* line 360
AnyChange == fixed_count > 0 \/ redirect_count > 0

\* lines 360-363: shutil.copy('catalog.json', 'catalog.json.backup')
Backup ==
    /\ LoopDone
    /\ AnyChange
    /\ backup_file' = File(catalog_json)
    /\ written' = Append(written, "catalog.json.backup")
    /\ pc' = "write"
    /\ UNCHANGED <<catalog_json, new_file, env, catalog, has_wrapper, idx, new_url,
                   counters, ret, log>>

\* lines 365-372: json.dump(output_data, 'catalog.json.new')
WriteNew ==
    /\ pc = "write"
    /\ new_file' = File([wrapped |-> has_wrapper, distros |-> catalog])
    /\ written' = Append(written, "catalog.json.new")
    /\ pc' = "report"
    /\ UNCHANGED <<catalog_json, backup_file, env, catalog, has_wrapper, idx, new_url,
                   counters, ret, log>>

\* lines 385-388
NoFixes ==
    /\ LoopDone
    /\ ~AnyChange
    /\ pc' = "report"
    /\ UNCHANGED <<files, env, catalog, has_wrapper, idx, new_url, counters, ret,
                   log, written>>

\* faulty variant: a run that fixed something reports success
ExitStatus_AnyFixed == IF Len(failed_distros) = 0 \/ fixed_count > 0 THEN 0 ELSE 1

\* line 403
ExitStatus == IF Len(failed_distros) = 0 THEN 0 ELSE 1

\* lines 390-403
Return ==
    /\ pc = "report"
    /\ ret' = <<ExitStatus>>
    /\ pc' = "done"
    /\ UNCHANGED <<files, env, catalog, has_wrapper, idx, new_url, counters,
                   log, written>>

\* ------------------------------------------------------------ environment
\* the operator follows line 383: mv catalog.json.new catalog.json, and
\* runs the tool again
Promote ==
    /\ pc = "done"
    /\ run < MaxRuns
    /\ new_file # Missing
    /\ catalog_json' = new_file[1]
    /\ new_file' = Missing
    /\ run' = run + 1
    /\ pc' = "start"
    /\ UNCHANGED <<backup_file, web, changes, catalog, has_wrapper, idx, new_url,
                   counters, ret, log, written>>

\* nothing was written: the operator runs the tool again on the directory as it is
Rerun ==
    /\ pc = "done"
    /\ run < MaxRuns
    /\ new_file = Missing
    /\ run' = run + 1
    /\ pc' = "start"
    /\ UNCHANGED <<files, web, changes, catalog, has_wrapper, idx, new_url,
                   counters, ret, log, written>>

\* a site goes down or comes up between two requests of the tool
WebChange ==
    /\ changes < MaxChanges
    /\ \E u \in Volatile :
           web' = [web EXCEPT ![u] = IF web[u].code = 200 THEN Gone ELSE Ok]
    /\ changes' = changes + 1
    /\ UNCHANGED <<files, run, pc, catalog, has_wrapper, idx, new_url, counters,
                   ret, log, written>>

Next ==
    \/ Load
    \/ SkipEmpty
    \/ ProbeWorking
    \/ ProbeRedirect
    \/ ProbeBroken
    \/ SiteSpecific
    \/ GenericSkip
    \/ GenericGithub
    \/ GenericSourceforge
    \/ GenericVersion
    \/ GenericMirror
    \/ GenericNone
    \/ ValidateFixed
    \/ ValidateFailed
    \/ NoReplacement
    \/ Backup
    \/ WriteNew
    \/ NoFixes
    \/ Return
    \/ Promote
    \/ Rerun
    \/ WebChange

Spec == Init /\ [][Next]_vars


\* ================================================================ claims
\* the catalog as main() loaded it (catalog.json is not written while it runs)
Input == catalog_json.distros
Running == pc # "start"
Entries == IF Running THEN 1..Len(catalog) ELSE {}
InputUrl(i) ==
    IF Input[i].download_url = MissingUrl THEN EmptyUrl ELSE Input[i].download_url
InputName(i) == IF Input[i].name = NoName THEN "Unknown" ELSE Input[i].name
Ended(i, o) == log[i].outcome = o
Passes(u) == test_url(web, u) = [valid |-> TRUE, final |-> u]
GenericNames == {"github", "sourceforge", "version", "mirror"}

\* C1: an entry that ended Fixed has verified = false and, while the network
\* has not changed, its stored download_url passes the prober; and whenever
\* main() overwrites a download_url, the value written passes the prober in
\* the state of the write.
C1_FixedState ==
    \A i \in Entries :
        Ended(i, "Fixed") =>
            /\ catalog[i].verified = "false"
            /\ changes = 0 => Passes(catalog[i].download_url)
C1_WriteStep ==
    \A i \in Entries :
        (i \in DOMAIN catalog' /\ pc' # "start"
            /\ catalog'[i].download_url # catalog[i].download_url)
        => test_url(web', catalog'[i].download_url)
               = [valid |-> TRUE, final |-> catalog'[i].download_url]
\* C1: both parts, the state of Fixed entries and every overwriting step
C1_FixedUrlProbedValid == [](C1_FixedState) /\ [][C1_WriteStep]_vars
C1_Witness ==
    /\ pc = "done"
    /\ \E i \in Entries :
           /\ Ended(i, "Fixed")
           /\ catalog[i].download_url # Input[i].download_url
           /\ Passes(catalog[i].download_url)

\* C2: an entry that ended StillBroken keeps its download_url and verified, and
\* failed_distros holds exactly one record (name, original URL, reason) per
\* such entry, in order, the reason telling whether a candidate was found.
RECURSIVE ExpectedFailures(_)
ExpectedFailures(n) ==
    IF n = 0 THEN <<>>
    ELSE IF Ended(n, "StillBroken")
         THEN Append(ExpectedFailures(n - 1),
                     <<InputName(n), InputUrl(n),
                       IF log[n].candidate = None
                       THEN "No replacement found"
                       ELSE "Found replacement but validation failed">>)
         ELSE ExpectedFailures(n - 1)
C2_StillBrokenUnchanged ==
    Running =>
        /\ \A i \in Entries : Ended(i, "StillBroken") => catalog[i] = Input[i]
        /\ failed_distros = ExpectedFailures(Len(catalog))
C2_Witness ==
    /\ pc = "done"
    /\ \E i, j \in Entries :
           /\ Ended(i, "StillBroken") /\ log[i].candidate = None
           /\ Ended(j, "StillBroken") /\ log[j].candidate # None
           /\ Len(failed_distros) = 2

\* C3: a step of main() on an entry whose URL probes valid invokes no
\* resolver and leaves verified alone; same URL: entry unchanged, working
\* counter + 1; other URL: download_url := resolved URL, redirect counter + 1.
C3_Step ==
    (InLoop /\ url # EmptyUrl /\ test_url(web, url).valid /\ <<pc, idx>>' # <<pc, idx>>)
    => /\ pc' = "loop" /\ idx' = idx + 1
       /\ log'[idx].tried = {} /\ log'[idx].generic_probed = {}
       /\ new_url' = new_url
       /\ catalog'[idx].verified = catalog[idx].verified
       /\ catalog'[idx].name = catalog[idx].name
       /\ \A j \in DOMAIN catalog : j # idx => catalog'[j] = catalog[j]
       /\ fixed_count' = fixed_count /\ failed_distros' = failed_distros
       /\ IF test_url(web, url).final = url
          THEN /\ catalog' = catalog
               /\ skipped_working' = skipped_working + 1
               /\ redirect_count' = redirect_count
          ELSE /\ catalog'[idx].download_url = test_url(web, url).final
               /\ redirect_count' = redirect_count + 1
               /\ skipped_working' = skipped_working
\* C3: every step of main() satisfies C3_Step
C3_ValidUrlHandling == [][C3_Step]_vars
C3_Witness ==
    /\ pc = "done"
    /\ \E i, j \in Entries :
           /\ Ended(i, "Working") /\ catalog[i] = Input[i]
           /\ Ended(j, "Redirected") /\ catalog[j].download_url # Input[j].download_url
           /\ catalog[j].verified = "true"
    /\ skipped_working = 1 /\ redirect_count = 1


\* C4: when main() has finished saving, it has written catalog.json.backup
\* if and only if some entry ended Fixed or Redirected; it then wrote the
\* backup (a copy of catalog.json) first and catalog.json.new second;
\* otherwise it wrote nothing; and no step of main() writes catalog.json.
Mutated == \E i \in Entries : Ended(i, "Fixed") \/ Ended(i, "Redirected")
C4_Saved ==
    pc \in {"report", "done"} =>
        /\ ("catalog.json.backup" \in {written[k] : k \in DOMAIN written}) <=> Mutated
        /\ Mutated =>
               /\ written = <<"catalog.json.backup", "catalog.json.new">>
               /\ backup_file = File(catalog_json)
               /\ new_file = File([wrapped |-> catalog_json.wrapped, distros |-> catalog])
        /\ ~Mutated => written = <<>>
C4_SourceStep == pc # "done" => catalog_json' = catalog_json
\* C4: the saved state, and catalog.json untouched by every step of main()
C4_BackupIffMutation == [](C4_Saved) /\ [][C4_SourceStep]_vars
C4_Witness ==
    /\ pc = "done"
    /\ run = 1
    /\ \E i \in Entries : Ended(i, "Redirected")
    /\ \A i \in Entries : ~Ended(i, "Fixed")
    /\ backup_file = File(catalog_json)
    /\ new_file # Missing /\ new_file # backup_file

\* C5: main() returns 0 exactly when no entry ended StillBroken (every entry
\* with a non-empty URL ended Working, Redirected or Fixed), else 1.
C5_ExitStatus ==
    pc = "done" =>
        /\ ret \in {<<0>>, <<1>>}
        /\ ret = <<0>> <=> (\A i \in Entries : ~Ended(i, "StillBroken"))
        /\ ret = <<0>> <=>
               (\A i \in Entries :
                    InputUrl(i) # EmptyUrl =>
                        log[i].outcome \in {"Working", "Redirected", "Fixed"})
C5_Witness ==
    /\ pc = "done"
    /\ ret = <<1>>
    /\ fixed_count + redirect_count > 0

\* C6: a run on an already-fixed catalog (the result of the run before) in
\* which every non-empty download_url probes valid, the network answering the
\* same throughout, mutates no entry and writes nothing.
NoBrokenUrl ==
    \A i \in Entries : InputUrl(i) # EmptyUrl => test_url(web, InputUrl(i)).valid
C6_Idempotent ==
    (pc = "done" /\ run >= 2 /\ changes = 0 /\ NoBrokenUrl) =>
        /\ catalog = Input
        /\ fixed_count = 0 /\ redirect_count = 0
        /\ written = <<>>
        /\ \A i \in Entries : log[i].outcome \in {"Working", "Skipped"}
C6_Witness ==
    /\ pc = "done" /\ run = 2 /\ changes = 0 /\ NoBrokenUrl
    /\ backup_file # Missing
    /\ Len(catalog) = 2
    /\ backup_file[1].distros[1].download_url # catalog[1].download_url
    /\ backup_file[1].distros[2].download_url # catalog[2].download_url
    /\ catalog[1].verified # catalog[2].verified


\* the entries of the scenario: URL .../v2.3/<file>-2.3.iso, broken, no
\* site-specific resolver for the name, neither forge nor file-hosting URL,
\* processed to the end with the network answering the same throughout
Shape23(i) ==
    /\ pc = "done" /\ changes = 0
    /\ InputUrl(i).vers = <<<<2, 3>>, <<2, 3>>>>
    /\ Dispatch(InputName(i)) = "none"
    /\ InputUrl(i).host \notin GithubHosts \cup SourceforgeHosts
    /\ ~test_url(web, InputUrl(i)).valid
\* .../v2.4/<file>-2.4.iso and .../v2.4/<file>-2.3.iso
Both24(u) == [u EXCEPT !.vers = <<<<2, 4>>, <<2, 4>>>>]
First24(u) == [u EXCEPT !.vers = <<<<2, 4>>, <<2, 3>>>>]

\* C7 as claimed: if the prober accepts .../v2.4/app-2.4.iso, the
\* version-increment strategy probes it and the entry ends Fixed with it and
\* verified = false.
C7_AsClaimed ==
    \A i \in Entries :
        (Shape23(i) /\ test_url(web, Both24(InputUrl(i))).valid) =>
            /\ Both24(InputUrl(i)) \in log[i].generic_probed
            /\ Ended(i, "Fixed")
            /\ catalog[i].download_url = Both24(InputUrl(i))
            /\ catalog[i].verified = "false"

\* C7 amended: the version-increment strategy substitutes the first
\* major.minor occurrence only: it never probes .../v2.4/app-2.4.iso; if the
\* prober accepts .../v2.4/app-2.3.iso (and rejects the original), the
\* strategy probes it, and the entry ends Fixed with the URL the prober
\* resolves it to and verified = false.
C7_FirstOccurrenceOnly ==
    \A i \in Entries :
        Shape23(i) =>
            /\ log[i].tried = {"version"}
            /\ Both24(InputUrl(i)) \notin log[i].generic_probed
            /\ test_url(web, First24(InputUrl(i))).valid =>
                   /\ First24(InputUrl(i)) \in log[i].generic_probed
                   /\ Ended(i, "Fixed")
                   /\ catalog[i].download_url = test_url(web, First24(InputUrl(i))).final
                   /\ catalog[i].verified = "false"
C7_Witness ==
    \E i \in Entries :
        /\ Shape23(i)
        /\ test_url(web, First24(InputUrl(i))).valid
        /\ test_url(web, Both24(InputUrl(i))).valid
        /\ Ended(i, "Fixed")
        /\ catalog[i].download_url = First24(InputUrl(i))
        /\ Input[i].verified = "true"

\* C8 as claimed: when the forge (or file-hosting) lookup returned absent for
\* a URL that also embeds a major.minor pattern, the version-increment
\* strategy is attempted before the entry is recorded as unresolved.
C8_AsClaimed ==
    \A i \in Entries :
        (/\ Ended(i, "StillBroken")
         /\ log[i].candidate = None
         /\ log[i].tried \cap {"github", "sourceforge"} # {}
         /\ HasVersion(InputUrl(i)))
        => "version" \in log[i].tried

\* C9: an entry with an empty or missing download_url is never mutated, probed
\* or handed to a resolver and is counted nowhere: each counter is the number
\* of entries that ended in its outcome, and at the end the four add up to
\* the number of entries with a non-empty download_url.
Count(o) == Cardinality({i \in Entries : Ended(i, o)})
NonEmpty == {i \in Entries : InputUrl(i) # EmptyUrl}
C9_EmptySkipped ==
    Running =>
        /\ \A i \in Entries :
               InputUrl(i) = EmptyUrl =>
                   /\ catalog[i] = Input[i]
                   /\ log[i].outcome \in {"Unchecked", "Skipped"}
                   /\ log[i].probed = {} /\ log[i].tried = {}
                   /\ log[i].generic_probed = {}
        /\ \A i \in NonEmpty : i < idx =>
               log[i].outcome \in {"Working", "Redirected", "Fixed", "StillBroken"}
        /\ fixed_count = Count("Fixed")
        /\ redirect_count = Count("Redirected")
        /\ skipped_working = Count("Working")
        /\ Len(failed_distros) = Count("StillBroken")
        /\ pc \in {"report", "done"} =>
               fixed_count + redirect_count + skipped_working + Len(failed_distros)
                   = Cardinality(NonEmpty)
C9_Witness ==
    /\ pc = "done"
    /\ \E i, j \in Entries :
           /\ Input[i].download_url = EmptyUrl /\ Ended(i, "Skipped")
           /\ Input[j].download_url = MissingUrl /\ Ended(j, "Skipped")
    /\ fixed_count + redirect_count + skipped_working + Len(failed_distros) = 0

\* C10 as claimed: for a broken entry with no site-specific candidate whose
\* URL is on a known mirror domain, no generic strategy probes any URL, no
\* candidate results, and the entry ends StillBroken, "No replacement found".
C10_AsClaimed ==
    \A i \in Entries :
        (/\ InputUrl(i).host \in MirrorHosts
         /\ log[i].tried \cap GenericNames # {})
        => /\ log[i].generic_probed = {}
           /\ (i = idx /\ pc = "validate") => new_url = None
           /\ log[i].outcome \in {"Unchecked", "StillBroken"}
           /\ log[i].candidate = None

====
